---- MODULE Spec2Model ----
(***************************************************************************)
(* Model of the GitClone agent (main.py): the checkout_github_pr tool, the *)
(* git repository and remote it acts on, and the worker loop of main().    *)
(*                                                                         *)
(* Strings the code splits, formats or searches are sequences of           *)
(* one-character strings; messages built by f-strings are sequences of     *)
(* their pieces.                                                           *)
(***************************************************************************)
EXTENDS Integers, Sequences, FiniteSets, TLC

(***************************************************************************)
(* Bounds.                                                                 *)
(***************************************************************************)
\* Commits that ever exist on the remote (one initial PR head plus pushes).
MaxCommit == 2
\* Mentions that ever arrive at the worker.
MaxMentions == 2

(***************************************************************************)
(* Inputs.                                                                 *)
(***************************************************************************)
\* "owner/repo" identifiers: two owners of a repository named x.
FullNames == { <<"a", "/", "x">>, <<"b", "/", "x">> }
\* Pull-request numbers; "pr-1" is a substring of "pr-12".
PRNums == {1, 12}
\* The invocation frames (one per thread that may run the tool).
Procs == {1, 2}

None == "None"
\* No directory at a path; no repository under a name on the remote host.
NoDir == [origin |-> <<>>, br |-> <<>>, head |-> <<>>]
NoRepo == [default |-> <<>>, pr |-> [n \in PRNums |-> 0]]

Main == <<"m", "a", "i", "n">>
Master == <<"m", "a", "s", "t", "e", "r">>
Dev == <<"d", "e", "v">>
\* The branch a clone defaults to: main, master, or neither.
Defaults == {Main, Master, Dev}

(***************************************************************************)
(* Pure helpers of checkout_github_pr.                                     *)
(***************************************************************************)
\* os.getcwd(): the process's working directory (absolute).
Cwd == <<"/", "w">>

\* Mutant of LastSegment: the directory is named after the whole identifier.
WholeName(s) == s

\* repo_full_name.split('/')[-1]
RECURSIVE LastSegment(_)
LastSegment(s) ==
    IF \E i \in 1..Len(s) : s[i] = "/" THEN LastSegment(Tail(s)) ELSE s

\* f'https://github.com/{repo_full_name}.git'
RepoUrl(full) == <<"https://github.com/">> \o full \o <<".git">>

\* os.path.join(dest_dir, repo_name)
PathJoin(dir, name) ==
    IF Len(name) > 0 /\ name[1] = "/" THEN name
    ELSE IF Len(dir) > 0 /\ dir[Len(dir)] = "/" THEN dir \o name
    ELSE dir \o <<"/">> \o name

RepoPath(dest, full) == PathJoin(dest, LastSegment(full))

\* str(int) for a non-negative integer
DigitChar(d) == <<"0", "1", "2", "3", "4", "5", "6", "7", "8", "9">>[d + 1]
RECURSIVE PyStrInt(_)
PyStrInt(n) ==
    IF n < 10 THEN <<DigitChar(n)>>
    ELSE PyStrInt(n \div 10) \o <<DigitChar(n % 10)>>

\* f'pr-{pr_number}'
PrBranch(n) == <<"p", "r", "-">> \o PyStrInt(n)

\* Python's `pat in text` on strings: substring search.
Contains(text, pat) ==
    \E i \in 0..(Len(text) - Len(pat)) : SubSeq(text, i + 1, i + Len(pat)) = pat

\* The value of e.stderr: subprocess.run fills it only when it captured stderr.
ErrStderr(captured, text) == IF captured THEN text ELSE None

\* f"Error: Git operation failed: {e.stderr ...}"
GitErrorString(stderrAttr) == <<"Error: ", "Git operation failed: ", stderrAttr>>

\* f"Error: Unexpected error: {str(e)}"
UnexpectedErrorString(e) == <<"Error: ", "Unexpected error: ", e>>

\* What git writes to its standard error when command cmd exits non-zero.
StderrText(cmd) == "stderr of git " \o cmd

IsErrorString(s) == Len(s) > 0 /\ s[1] = "Error: "

Paths == { RepoPath(Cwd, f) : f \in FullNames }
PrBranches == { PrBranch(n) : n \in PRNums }
\* Branch names in the order `git branch` prints them (alphabetical).
BranchOrder == <<Dev, Main, Master, PrBranch(1), PrBranch(12)>>

VARIABLES
    remote,     \* remote[f]: [default, pr]: the GitHub repository f, or NoRepo
    parent,     \* parent[c]: the parent commit of commit c (0: none)
    fs,         \* fs[path]: the git working tree at path, or NoDir
    cwdOk,      \* whether the process's working directory still exists
    frame,      \* frame[p]: the invocation of checkout_github_pr in thread p
    prev,       \* the invocation completed last: [repo, n, ret, stamp]
    wpc,        \* where the worker loop of main() is
    inbox,      \* the mentions that arrived at the server, in order
    taken,      \* how many of them wait_for_mentions has handed over
    cur,        \* the mention the round is handling (0: none)
    result,     \* the tool's result the round holds
    outbox,     \* the messages sent with send_message
    called,     \* the mentions for which the tool was invoked
    logged      \* whether the round's error was logged

world == <<remote, parent, fs, cwdOk>>
worker == <<wpc, inbox, taken, cur, result, outbox, called, logged>>
vars == <<remote, parent, fs, cwdOk, frame, prev, wpc, inbox, taken, cur, result, outbox,
          called, logged>>

(***************************************************************************)
(* git, as far as the tool uses it.  A working tree is a record            *)
(* [origin, br, head]: the repository it was cloned from, its local        *)
(* branches (name -> commit) and the branch checked out.                   *)
(***************************************************************************)
RECURSIVE IsAncestor(_, _)
\* a is b or an ancestor of b
IsAncestor(a, b) ==
    IF b = 0 THEN FALSE
    ELSE IF a = b THEN TRUE
    ELSE IsAncestor(a, parent[b])

HasBranch(r, b) == b \in DOMAIN r.br

\* git clone <url> <path>: exits 0 iff the remote repository exists.
CloneOk(full) == remote[full] # NoRepo
Cloned(full) ==
    [origin |-> full, br |-> (remote[full].default :> 0), head |-> remote[full].default]

\* git checkout <b>: exits 0 iff b is a local branch (or a remote head, which
\* after a clone of a single-branch remote is the same set).
CheckoutOk(r, b) == HasBranch(r, b)
CheckedOut(r, b) == [r EXCEPT !.head = b]

\* The standard output of `git branch`: one line per local branch.
RECURSIVE BranchLines(_, _)
BranchLines(r, i) ==
    IF i > Len(BranchOrder) THEN <<>>
    ELSE (IF HasBranch(r, BranchOrder[i])
          THEN (IF r.head = BranchOrder[i] THEN <<"*", " ">> ELSE <<" ", " ">>)
               \o BranchOrder[i] \o <<"\n">>
          ELSE <<>>) \o BranchLines(r, i + 1)
BranchListing(r) == BranchLines(r, 1)

\* git branch -D <b>: refuses a branch that does not exist or is checked out.
DeleteOk(r, b) == HasBranch(r, b) /\ r.head # b
Deleted(r, b) == [r EXCEPT !.br = [x \in (DOMAIN r.br) \ {b} |-> r.br[x]]]

\* The commit pull/<n>/head names on the tree's origin (0: no such ref).
PullHead(r, n) == IF n \in DOMAIN remote[r.origin].pr THEN remote[r.origin].pr[n] ELSE 0

\* git fetch origin pull/<n>/head:<b>: needs the ref, refuses the checked-out
\* branch, and updates an existing branch only by fast-forward.
FetchOk(r, n, b) ==
    /\ PullHead(r, n) # 0
    /\ r.head # b
    /\ HasBranch(r, b) => IsAncestor(r.br[b], PullHead(r, n))
\* Mutant of Fetched: a branch that already exists is left where it was.
FetchedKeepsExisting(r, n, b) ==
    IF HasBranch(r, b) THEN r
    ELSE [r EXCEPT !.br = (b :> PullHead(r, n)) @@ r.br]

Fetched(r, n, b) ==
    [r EXCEPT !.br = (b :> PullHead(r, n)) @@ [x \in (DOMAIN r.br) \ {b} |-> r.br[x]]]

(***************************************************************************)
(* checkout_github_pr, one action per statement that touches the world.    *)
(***************************************************************************)
\* How the environment treats one subprocess.run: git runs normally ("ok"),
\* git exits non-zero for a reason outside the repository state ("fail":
\* network, lock, disk), or the call raises something other than
\* CalledProcessError ("raise": e.g. OSError).
Env == {"ok", "fail", "raise"}

\* The outcome of subprocess.run(..., check=True).
Rc(env, gitOk) ==
    IF env = "raise" THEN "raise"
    ELSE IF env = "ok" /\ gitOk THEN "zero"
    ELSE "nonzero"

IdleFrame ==
    [pc |-> "idle", repo |-> <<>>, n |-> 0, dest |-> <<>>, ret |-> <<>>,
     existed |-> FALSE, run |-> <<>>, fault |-> FALSE, old |-> 0, got |-> 0, stamp |-> 0,
     listed |-> FALSE, tree0 |-> NoDir, overlap |-> FALSE]

\* The local names of lines 38-41.
PathOf(p) == RepoPath(frame[p].dest, frame[p].repo)
BranchOf(p) == PrBranch(frame[p].n)
Tree(p) == fs[PathOf(p)]
TreeOk(p) == Tree(p) # NoDir

\* History of the invocation: the git commands run with their outcomes, and
\* whether the environment made one of them fail.
Ran(p, cmd, rc) == Append(frame[p].run, [cmd |-> cmd, rc |-> rc])
Fault(p, env) == frame[p].fault \/ env # "ok"

\* The except clauses of lines 85-93: what a failed command makes the
\* function return.  No call captures stderr, so e.stderr is None.
Handler(cmd, rc) ==
    IF rc = "nonzero" THEN GitErrorString(ErrStderr(FALSE, StderrText(cmd)))
    ELSE UnexpectedErrorString("OSError")

Goto(p, cmd, env, rc, pc) ==
    frame' = [frame EXCEPT ![p].pc = pc, ![p].run = Ran(p, cmd, rc),
                           ![p].fault = Fault(p, env)]

Abort(p, cmd, env, rc) ==
    frame' = [frame EXCEPT ![p].pc = "returned", ![p].ret = Handler(cmd, rc),
                           ![p].run = Ran(p, cmd, rc), ![p].fault = Fault(p, env)]

\* os.path.abspath(repo_path)
AbsPath(path) == IF Len(path) > 0 /\ path[1] = "/" THEN path ELSE PathJoin(Cwd, path)

\* Line 35, outside the try: os.getcwd() raises when the directory is gone.
GetCwd(p) ==
    /\ frame[p].pc = "getcwd"
    /\ IF cwdOk
       THEN frame' = [frame EXCEPT ![p].pc = "exists", ![p].dest = Cwd]
       ELSE frame' = [frame EXCEPT ![p].pc = "raised"]
    /\ UNCHANGED <<remote, parent, fs, cwdOk, prev, worker>>

\* Mutant of PathExists: the clone is attempted whether or not the path exists.
PathExistsIgnored(p) ==
    /\ frame[p].pc = "exists"
    /\ frame' = [frame EXCEPT ![p].pc = "clone"]
    /\ UNCHANGED <<remote, parent, fs, cwdOk, prev, worker>>

\* Line 48: os.path.exists(repo_path).
PathExists(p) ==
    /\ frame[p].pc = "exists"
    /\ frame' = [frame EXCEPT ![p].pc = IF TreeOk(p) THEN "co_main" ELSE "clone"]
    /\ UNCHANGED <<remote, parent, fs, cwdOk, prev, worker>>

\* Line 50: git clone.  A clone that fails removes what it created.
Clone(p) ==
    /\ frame[p].pc = "clone"
    /\ \E env \in Env :
         LET rc == Rc(env, cwdOk /\ ~TreeOk(p) /\ CloneOk(frame[p].repo)) IN
         IF rc = "zero"
         THEN /\ fs' = [fs EXCEPT ![PathOf(p)] = Cloned(frame[p].repo)]
              /\ Goto(p, "clone", env, rc, "co_main")
         ELSE /\ Abort(p, "clone", env, rc)
              /\ UNCHANGED fs
    /\ UNCHANGED <<remote, parent, cwdOk, prev, worker>>

\* Lines 55-59: git checkout main; a non-zero exit leads to the master try.
CheckoutMain(p) ==
    /\ frame[p].pc = "co_main"
    /\ \E env \in Env :
         LET rc == Rc(env, TreeOk(p) /\ CheckoutOk(Tree(p), Main)) IN
         CASE rc = "zero" ->
                /\ fs' = [fs EXCEPT ![PathOf(p)] = CheckedOut(Tree(p), Main)]
                /\ Goto(p, "checkout main", env, rc, "branch")
           [] rc = "nonzero" ->
                /\ Goto(p, "checkout main", env, rc, "co_master")
                /\ UNCHANGED fs
           [] OTHER ->
                /\ Abort(p, "checkout main", env, rc)
                /\ UNCHANGED fs
    /\ UNCHANGED <<remote, parent, cwdOk, prev, worker>>

\* Mutant of CheckoutMaster: the inner handler does not swallow the failure.
CheckoutMasterFatal(p) ==
    /\ frame[p].pc = "co_master"
    /\ \E env \in Env :
         LET rc == Rc(env, TreeOk(p) /\ CheckoutOk(Tree(p), Master)) IN
         IF rc = "zero"
         THEN /\ fs' = [fs EXCEPT ![PathOf(p)] = CheckedOut(Tree(p), Master)]
              /\ Goto(p, "checkout master", env, rc, "branch")
         ELSE /\ Abort(p, "checkout master", env, rc)
              /\ UNCHANGED fs
    /\ UNCHANGED <<remote, parent, cwdOk, prev, worker>>

\* Lines 60-66: git checkout master; a non-zero exit is swallowed.
CheckoutMaster(p) ==
    /\ frame[p].pc = "co_master"
    /\ \E env \in Env :
         LET rc == Rc(env, TreeOk(p) /\ CheckoutOk(Tree(p), Master)) IN
         CASE rc = "zero" ->
                /\ fs' = [fs EXCEPT ![PathOf(p)] = CheckedOut(Tree(p), Master)]
                /\ Goto(p, "checkout master", env, rc, "branch")
           [] rc = "nonzero" ->
                /\ Goto(p, "checkout master", env, rc, "branch")
                /\ UNCHANGED fs
           [] OTHER ->
                /\ Abort(p, "checkout master", env, rc)
                /\ UNCHANGED fs
    /\ UNCHANGED <<remote, parent, cwdOk, prev, worker>>

\* Lines 69-72: git branch (no check=True: a non-zero exit only leaves stdout
\* empty), then the test `pr_branch in existing_branches`.
ListBranches(p) ==
    /\ frame[p].pc = "branch"
    /\ \E env \in Env :
         LET rc == Rc(env, TreeOk(p))
             existing_branches == IF rc = "zero" THEN BranchListing(Tree(p)) ELSE <<>>
         IN
         IF rc = "raise" THEN Abort(p, "branch", env, rc)
         ELSE frame' = [frame EXCEPT
                  ![p].pc = IF Contains(existing_branches, BranchOf(p)) THEN "delete" ELSE "fetch",
                  ![p].listed = Contains(existing_branches, BranchOf(p)),
                  ![p].run = Ran(p, "branch", rc),
                  ![p].fault = Fault(p, env)]
    /\ UNCHANGED <<remote, parent, fs, cwdOk, prev, worker>>

\* Line 74: git branch -D pr-n.
DeleteBranch(p) ==
    /\ frame[p].pc = "delete"
    /\ \E env \in Env :
         LET rc == Rc(env, TreeOk(p) /\ DeleteOk(Tree(p), BranchOf(p))) IN
         IF rc = "zero"
         THEN /\ fs' = [fs EXCEPT ![PathOf(p)] = Deleted(Tree(p), BranchOf(p))]
              /\ Goto(p, "branch -D", env, rc, "fetch")
         ELSE /\ Abort(p, "branch -D", env, rc)
              /\ UNCHANGED fs
    /\ UNCHANGED <<remote, parent, cwdOk, prev, worker>>

\* Mutant of Fetch: a fetch that exits non-zero does not end the call.
FetchNotFatal(p) ==
    /\ frame[p].pc = "fetch"
    /\ \E env \in Env :
         LET rc == Rc(env, TreeOk(p) /\ FetchOk(Tree(p), frame[p].n, BranchOf(p))) IN
         CASE rc = "zero" ->
                /\ fs' = [fs EXCEPT ![PathOf(p)] = Fetched(Tree(p), frame[p].n, BranchOf(p))]
                /\ frame' = [frame EXCEPT ![p].pc = "co_pr",
                                          ![p].got = PullHead(Tree(p), frame[p].n),
                                          ![p].run = Ran(p, "fetch", rc),
                                          ![p].fault = Fault(p, env)]
           [] rc = "nonzero" ->
                /\ Goto(p, "fetch", env, rc, "co_pr")
                /\ UNCHANGED fs
           [] OTHER ->
                /\ Abort(p, "fetch", env, rc)
                /\ UNCHANGED fs
    /\ UNCHANGED <<remote, parent, cwdOk, prev, worker>>

\* Line 77: git fetch origin pull/n/head:pr-n.
Fetch(p) ==
    /\ frame[p].pc = "fetch"
    /\ \E env \in Env :
         LET rc == Rc(env, TreeOk(p) /\ FetchOk(Tree(p), frame[p].n, BranchOf(p))) IN
         IF rc = "zero"
         THEN /\ fs' = [fs EXCEPT ![PathOf(p)] = Fetched(Tree(p), frame[p].n, BranchOf(p))]
              /\ frame' = [frame EXCEPT ![p].pc = "co_pr",
                                        ![p].got = PullHead(Tree(p), frame[p].n),
                                        ![p].run = Ran(p, "fetch", rc),
                                        ![p].fault = Fault(p, env)]
         ELSE /\ Abort(p, "fetch", env, rc)
              /\ UNCHANGED fs
    /\ UNCHANGED <<remote, parent, cwdOk, prev, worker>>

\* Mutant of CheckoutPr: the final checkout is run without check=True.
CheckoutPrUnchecked(p) ==
    /\ frame[p].pc = "co_pr"
    /\ \E env \in Env :
         LET rc == Rc(env, TreeOk(p) /\ CheckoutOk(Tree(p), BranchOf(p))) IN
         CASE rc = "zero" ->
                /\ fs' = [fs EXCEPT ![PathOf(p)] = CheckedOut(Tree(p), BranchOf(p))]
                /\ frame' = [frame EXCEPT ![p].pc = "returned",
                                          ![p].ret = AbsPath(PathOf(p)),
                                          ![p].run = Ran(p, "checkout pr", rc),
                                          ![p].fault = Fault(p, env)]
           [] rc = "nonzero" ->
                /\ frame' = [frame EXCEPT ![p].pc = "returned",
                                          ![p].ret = AbsPath(PathOf(p)),
                                          ![p].run = Ran(p, "checkout pr", rc),
                                          ![p].fault = Fault(p, env)]
                /\ UNCHANGED fs
           [] OTHER ->
                /\ Abort(p, "checkout pr", env, rc)
                /\ UNCHANGED fs
    /\ UNCHANGED <<remote, parent, cwdOk, prev, worker>>

\* Lines 79-83: git checkout pr-n, then return os.path.abspath(repo_path).
CheckoutPr(p) ==
    /\ frame[p].pc = "co_pr"
    /\ \E env \in Env :
         LET rc == Rc(env, TreeOk(p) /\ CheckoutOk(Tree(p), BranchOf(p))) IN
         IF rc = "zero"
         THEN /\ fs' = [fs EXCEPT ![PathOf(p)] = CheckedOut(Tree(p), BranchOf(p))]
              /\ frame' = [frame EXCEPT ![p].pc = "returned",
                                        ![p].ret = AbsPath(PathOf(p)),
                                        ![p].run = Ran(p, "checkout pr", rc),
                                        ![p].fault = Fault(p, env)]
         ELSE /\ Abort(p, "checkout pr", env, rc)
              /\ UNCHANGED fs
    /\ UNCHANGED <<remote, parent, cwdOk, prev, worker>>

Step(p) ==
    \/ GetCwd(p)
    \/ PathExists(p)
    \/ Clone(p)
    \/ CheckoutMain(p)
    \/ CheckoutMaster(p)
    \/ ListBranches(p)
    \/ DeleteBranch(p)
    \/ Fetch(p)
    \/ CheckoutPr(p)

(***************************************************************************)
(* The environment: the remote repository and the working directory.      *)
(***************************************************************************)
\* A push to the head of pull request n of f: a new commit on top of the old
\* head (ff) or a rewritten history (a force-push, or the PR being opened).
RemotePush(f, n, ff) ==
    /\ remote[f] # NoRepo
    /\ Len(parent) < MaxCommit
    /\ ff => remote[f].pr[n] # 0
    /\ parent' = Append(parent, IF ff THEN remote[f].pr[n] ELSE 0)
    /\ remote' = [remote EXCEPT ![f].pr[n] = Len(parent) + 1]
    /\ UNCHANGED <<fs, cwdOk, frame, prev, worker>>

\* The working directory is removed under the process, with all it holds
\* (between invocations: during one, it shows as git commands failing).
RemoveCwd ==
    /\ cwdOk
    /\ \A q \in Procs : frame[q].pc = "idle"
    /\ cwdOk' = FALSE
    /\ fs' = [path \in Paths |-> NoDir]
    /\ UNCHANGED <<remote, parent, frame, prev, worker>>

(***************************************************************************)
(* The engine specification: a caller that invokes the tool one call at a  *)
(* time, with any repository and PR number.                                *)
(***************************************************************************)
\* Ghost fields of a frame, set when the call starts: whether the target path
\* existed, the commit local pr-n pointed at, the tree at the path, the number
\* of remote commits; later, whether line 72 found pr-n in the listing and
\* whether another call ran during this one.
NoPrev == [repo |-> <<>>, n |-> 0, ret |-> <<>>, raised |-> FALSE, stamp |-> 0]

LocalPr(f, n) ==
    LET r == fs[RepoPath(Cwd, f)] IN
    IF r # NoDir /\ HasBranch(r, PrBranch(n)) THEN r.br[PrBranch(n)] ELSE 0

Call(p, f, n) ==
    /\ \A q \in Procs : frame[q].pc = "idle"
    /\ frame' = [frame EXCEPT ![p] = [IdleFrame EXCEPT !.pc = "getcwd", !.repo = f, !.n = n,
                                                      !.existed = fs[RepoPath(Cwd, f)] # NoDir,
                                                      !.old = LocalPr(f, n),
                                                      !.tree0 = fs[RepoPath(Cwd, f)],
                                                      !.stamp = Len(parent)]]
    /\ UNCHANGED <<remote, parent, fs, cwdOk, prev, worker>>

\* The caller takes the result.
Return(p) ==
    /\ frame[p].pc \in {"returned", "raised"}
    /\ prev' = [repo |-> frame[p].repo, n |-> frame[p].n, ret |-> frame[p].ret,
                raised |-> frame[p].pc = "raised", stamp |-> frame[p].stamp]
    /\ frame' = [frame EXCEPT ![p] = IdleFrame]
    /\ UNCHANGED <<remote, parent, fs, cwdOk, worker>>

\* The remote at the start: a/x exists with pull request 1 open and any of the
\* default branches; b/x does not exist.
InitRemote ==
    { [f \in FullNames |->
          IF f[1] = "a"
          THEN [default |-> d, pr |-> [n \in PRNums |-> IF n = 1 THEN 1 ELSE 0]]
          ELSE NoRepo] : d \in Defaults }

Init ==
    /\ remote \in InitRemote
    /\ parent = <<0>>
    /\ fs = [path \in Paths |-> NoDir]
    /\ cwdOk = TRUE
    /\ frame = [p \in Procs |-> IdleFrame]
    /\ prev = NoPrev
    /\ wpc = "kickoff"
    /\ inbox = <<>>
    /\ taken = 0
    /\ cur = 0
    /\ result = <<>>
    /\ outbox = <<>>
    /\ called = {}
    /\ logged = FALSE

Next ==
    \/ \E f \in FullNames, n \in PRNums : Call(1, f, n)
    \/ \E p \in Procs : Step(p)
    \/ \E p \in Procs : Return(p)
    \/ \E f \in FullNames, n \in PRNums, ff \in BOOLEAN : RemotePush(f, n, ff)
    \/ RemoveCwd

Spec == Init /\ [][Next]_vars

(***************************************************************************)
(* Two repositories of the same name under different owners, called one    *)
(* after the other from the same working directory.                        *)
(***************************************************************************)
OwnerA == <<"a", "/", "x">>
OwnerB == <<"b", "/", "x">>

\* Both remotes exist with default branch main; pull request 1 is open on
\* both with different head commits, pull request 12 only on b/x.
InitOwners ==
    /\ remote = [f \in FullNames |->
                    IF f = OwnerA
                    THEN [default |-> Main, pr |-> [n \in PRNums |-> IF n = 1 THEN 1 ELSE 0]]
                    ELSE [default |-> Main, pr |-> [n \in PRNums |-> IF n = 1 THEN 2 ELSE 3]]]
    /\ parent = <<0, 0, 0>>
    /\ fs = [path \in Paths |-> NoDir]
    /\ cwdOk = TRUE
    /\ frame = [p \in Procs |-> IdleFrame]
    /\ prev = NoPrev
    /\ wpc = "kickoff"
    /\ inbox = <<>>
    /\ taken = 0
    /\ cur = 0
    /\ result = <<>>
    /\ outbox = <<>>
    /\ called = {}
    /\ logged = FALSE

NextOwners ==
    \/ \E f \in FullNames, n \in PRNums : Call(1, f, n)
    \/ \E p \in Procs : Step(p)
    \/ \E p \in Procs : Return(p)

SpecOwners == InitOwners /\ [][NextOwners]_vars

(***************************************************************************)
(* Two invocations for the same repository running at once, interleaved    *)
(* at the granularity of single git commands.                              *)
(***************************************************************************)
\* An invocation starts while the others are idle or in progress (the result
\* of a finished one is taken first: a call that starts after another has
\* returned is not concurrent with it).  It takes the first free frame.
\* Invocations active together are marked as overlapping.
CallRace(p, f, n) ==
    /\ frame[p].pc = "idle"
    /\ \A q \in Procs : q < p => frame[q].pc # "idle"
    /\ \A q \in Procs \ {p} : frame[q].pc \notin {"returned", "raised"}
    /\ LET busy == { q \in Procs \ {p} : frame[q].pc # "idle" } IN
       frame' = [q \in Procs |->
                   IF q = p
                   THEN [IdleFrame EXCEPT !.pc = "getcwd", !.repo = f, !.n = n,
                                          !.existed = fs[RepoPath(Cwd, f)] # NoDir,
                                          !.old = LocalPr(f, n),
                                          !.tree0 = fs[RepoPath(Cwd, f)],
                                          !.stamp = Len(parent),
                                          !.overlap = busy # {}]
                   ELSE IF q \in busy THEN [frame[q] EXCEPT !.overlap = TRUE]
                   ELSE frame[q]]
    /\ UNCHANGED <<remote, parent, fs, cwdOk, prev, worker>>

\* a/x exists with default branch main and pull request 1 open.
InitRace ==
    /\ remote = [f \in FullNames |->
                    IF f = OwnerA
                    THEN [default |-> Main, pr |-> [n \in PRNums |-> IF n = 1 THEN 1 ELSE 0]]
                    ELSE NoRepo]
    /\ parent = <<0>>
    /\ fs = [path \in Paths |-> NoDir]
    /\ cwdOk = TRUE
    /\ frame = [p \in Procs |-> IdleFrame]
    /\ prev = NoPrev
    /\ wpc = "kickoff"
    /\ inbox = <<>>
    /\ taken = 0
    /\ cur = 0
    /\ result = <<>>
    /\ outbox = <<>>
    /\ called = {}
    /\ logged = FALSE

NextRace ==
    \/ \E p \in Procs, n \in PRNums : CallRace(p, OwnerA, n)
    \/ \E p \in Procs : Step(p)
    \/ \E p \in Procs : Return(p)

SpecRace == InitRace /\ [][NextRace]_vars

(***************************************************************************)
(* The worker of main(): the loop of lines 188-197 around crew.kickoff(),  *)
(* and inside a round the steps the task description (lines 161-174)       *)
(* prescribes to the agent.                                                *)
(***************************************************************************)
\* The mentions that may arrive: thread and sender, and what steps 3-4
\* extract from the text (<<>>: no repo; 0: no PR number).
Mentions ==
    { [thread |-> "t1", sender |-> "s1", repo |-> <<"a", "/", "x">>, pr |-> 1],
      [thread |-> "t2", sender |-> "s2", repo |-> <<"a", "/", "x">>, pr |-> 1],
      [thread |-> "t1", sender |-> "s1", repo |-> <<"a", "/", "x">>, pr |-> 0],
      [thread |-> "t2", sender |-> "s2", repo |-> <<>>, pr |-> 1] }

\* Mutant of WellFormed: a message with a repo but no PR number is accepted.
WellFormedRepoOnly(m) == m.repo # <<>>

\* Steps 3, 4 and 8: the message yields both a repo and a PR number.
WellFormed(m) == m.repo # <<>> /\ m.pr # 0

\* A mention arrives at the server.
NewMention(m) ==
    /\ Len(inbox) < MaxMentions
    /\ inbox' = Append(inbox, m)
    /\ UNCHANGED <<world, frame, prev, wpc, taken, cur, result, outbox, called, logged>>

\* Lines 189-191: crew.kickoff() starts a round at step 1.
Kickoff ==
    /\ wpc = "kickoff"
    /\ wpc' = "wait"
    /\ logged' = FALSE
    /\ UNCHANGED <<world, frame, prev, inbox, taken, cur, result, outbox, called>>

\* Steps 1-2: wait_for_mentions hands over the oldest mention not yet handed
\* over; with none it times out and is called again.
WaitForMentions ==
    /\ wpc = "wait"
    /\ taken < Len(inbox)
    /\ taken' = taken + 1
    /\ cur' = taken + 1
    /\ wpc' = "parse"
    /\ UNCHANGED <<world, frame, prev, inbox, result, outbox, called, logged>>

\* Steps 3, 4 and 8: an incomplete message is skipped silently.
ParseMention ==
    /\ wpc = "parse"
    /\ wpc' = IF WellFormed(inbox[cur]) THEN "call" ELSE "pause"
    /\ UNCHANGED <<world, frame, prev, inbox, taken, cur, result, outbox, called, logged>>

\* The frame a tool call runs in: the first one that is free.
FreeFrame == CHOOSE p \in Procs : frame[p].pc = "idle" /\ \A q \in Procs : frame[q].pc = "idle" => p <= q

\* Step 5: the agent calls checkout_github_pr and waits for it.
ToolCall ==
    /\ wpc = "call"
    /\ \E p \in Procs : frame[p].pc = "idle"
    /\ frame' = [frame EXCEPT ![FreeFrame] =
                    [IdleFrame EXCEPT !.pc = "getcwd", !.repo = inbox[cur].repo,
                                      !.n = inbox[cur].pr,
                                      !.existed = fs[RepoPath(Cwd, inbox[cur].repo)] # NoDir,
                                      !.stamp = Len(parent)]]
    /\ called' = called \cup {cur}
    /\ wpc' = "in_tool"
    /\ UNCHANGED <<world, prev, inbox, taken, cur, result, outbox, logged>>

\* The tool returns its string to the agent.
ToolReturn(p) ==
    /\ wpc = "in_tool"
    /\ frame[p].pc = "returned"
    /\ result' = frame[p].ret
    /\ frame' = [frame EXCEPT ![p] = IdleFrame]
    /\ wpc' = "send"
    /\ UNCHANGED <<world, prev, inbox, taken, cur, outbox, called, logged>>

\* The tool raised: the exception ends the round, or the framework hands its
\* text to the agent as the tool's result.
ToolRaised(p) ==
    /\ wpc = "in_tool"
    /\ frame[p].pc = "raised"
    /\ frame' = [frame EXCEPT ![p] = IdleFrame]
    /\ \/ wpc' = "except" /\ cur' = 0 /\ result' = <<>>
       \/ wpc' = "send" /\ cur' = cur /\ result' = <<"FileNotFoundError">>
    /\ UNCHANGED <<world, prev, inbox, taken, outbox, called, logged>>

\* Steps 6, 7 and 9: send_message with the result, to the sender, on the
\* mention's thread.
SendMessage ==
    /\ wpc = "send"
    /\ outbox' = Append(outbox, [thread |-> inbox[cur].thread, to |-> inbox[cur].sender,
                                 text |-> result, re |-> cur])
    /\ wpc' = "pause"
    /\ UNCHANGED <<world, frame, prev, inbox, taken, cur, result, called, logged>>

\* Step 10: wait 2 seconds and repeat from step 1.
Pause ==
    /\ wpc = "pause"
    /\ wpc' = "wait"
    /\ cur' = 0
    /\ result' = <<>>
    /\ UNCHANGED <<world, frame, prev, inbox, taken, outbox, called, logged>>

\* Mutant of RoundCanEnd: kickoff may end while the tool is still running.
RoundCanEndInTool == wpc \in {"wait", "parse", "call", "in_tool", "send", "pause"}

\* crew.kickoff() is a blocking call and the tool runs inside it: the round
\* can end (return or raise) anywhere but in the middle of a tool call.
RoundCanEnd == wpc \in {"wait", "parse", "call", "send", "pause"}

\* Line 191: crew.kickoff() raises (the framework, the model API, the server).
RoundRaises ==
    /\ RoundCanEnd
    /\ wpc' = "except"
    /\ cur' = 0
    /\ result' = <<>>
    /\ UNCHANGED <<world, frame, prev, inbox, taken, outbox, called, logged>>

\* Line 191: crew.kickoff() returns (the agent gives its final answer).
RoundCompletes ==
    /\ RoundCanEnd
    /\ wpc' = "completed"
    /\ cur' = 0
    /\ result' = <<>>
    /\ UNCHANGED <<world, frame, prev, inbox, taken, outbox, called, logged>>

\* Mutant of HandleException: the handler lets the exception end main().
HandleExceptionReraises ==
    /\ wpc = "except"
    /\ wpc' = "exited"
    /\ UNCHANGED <<world, frame, prev, inbox, taken, cur, result, outbox, called, logged>>

\* Lines 195-196: except Exception: logger.error(...).
HandleException ==
    /\ wpc = "except"
    /\ logged' = TRUE
    /\ wpc' = "sleep"
    /\ UNCHANGED <<world, frame, prev, inbox, taken, cur, result, outbox, called>>

\* Line 192: the round's result is printed.
PrintResult ==
    /\ wpc = "completed"
    /\ wpc' = "sleep"
    /\ UNCHANGED <<world, frame, prev, inbox, taken, cur, result, outbox, called, logged>>

\* Lines 193 and 197, then `while True`: sleep a second and start over.
Sleep ==
    /\ wpc = "sleep"
    /\ wpc' = "kickoff"
    /\ UNCHANGED <<world, frame, prev, inbox, taken, cur, result, outbox, called, logged>>

\* The steps the worker takes by itself.
WorkerStep ==
    \/ Kickoff
    \/ WaitForMentions
    \/ ParseMention
    \/ ToolCall
    \/ \E p \in Procs : ToolReturn(p)
    \/ \E p \in Procs : ToolRaised(p)
    \/ SendMessage
    \/ Pause
    \/ HandleException
    \/ PrintResult
    \/ Sleep

NextWorker ==
    \/ \E m \in Mentions : NewMention(m)
    \/ WorkerStep
    \/ \E p \in Procs : Step(p)
    \/ RoundRaises
    \/ RoundCompletes
    \/ RemoveCwd

\* The worker starts with an empty working directory; the repository its
\* mentions name has the default branch main.
InitWorker ==
    /\ Init
    /\ remote[<<"a", "/", "x">>].default = Main

SpecWorker == InitWorker /\ [][NextWorker]_vars

\* The worker and the tool keep running; mentions and failures of a round
\* come from outside and are under no obligation.
SpecWorkerFair ==
    /\ InitWorker
    /\ [][NextWorker]_vars
    /\ WF_vars(WorkerStep)
    /\ \A p \in Procs : WF_vars(Step(p))

(***************************************************************************)
(* Properties of checkout_github_pr.                                       *)
(***************************************************************************)
IsPath(s) == Len(s) > 0 /\ ~IsErrorString(s)
Finished(p) == frame[p].pc = "returned"
RanCmd(p, cmd) == \E i \in 1..Len(frame[p].run) : frame[p].run[i].cmd = cmd
RanRc(p, cmd, rc) ==
    \E i \in 1..Len(frame[p].run) : frame[p].run[i] = [cmd |-> cmd, rc |-> rc]
LastRun(p) == frame[p].run[Len(frame[p].run)]
\* The invocation in frame p repeats the one completed just before it, which
\* returned a path, and the remote has not changed since that one began.
Repeats(p) ==
    /\ prev.repo = frame[p].repo
    /\ prev.n = frame[p].n
    /\ IsPath(prev.ret)
    /\ prev.stamp = Len(parent)

\* C1: a call that immediately repeats a call that returned a path, with the
\* remote unchanged and no command failing for outside reasons, returns the
\* same path, whatever branch the clone defaulted to.
C1_IdempotentReinvocation ==
    \A p \in Procs :
        (frame[p].pc \in {"returned", "raised"} /\ Repeats(p) /\ cwdOk /\ ~frame[p].fault)
            => frame[p].ret = prev.ret

\* C2: every exit of the call is a returned string, the absolute path or a
\* string that begins with "Error: "; no exception reaches the caller.
C2_EveryExitIsAString ==
    \A p \in Procs :
        /\ frame[p].pc # "raised"
        /\ Finished(p) =>
              \/ IsErrorString(frame[p].ret)
              \/ frame[p].ret = AbsPath(RepoPath(Cwd, frame[p].repo))

\* C3: a call that returns a path leaves local pr-n pointing at the commit the
\* remote pull-request head had when it was fetched, and checked out; if pr-n
\* pointed at another commit before, it no longer does.
C3_BranchReplacement ==
    \A p \in Procs :
        (Finished(p) /\ IsPath(frame[p].ret)) =>
            LET r == fs[frame[p].ret] IN
            /\ r # NoDir
            /\ HasBranch(r, BranchOf(p))
            /\ frame[p].got # 0
            /\ r.br[BranchOf(p)] = frame[p].got
            /\ r.head = BranchOf(p)

C3_Witness ==
    \E p \in Procs :
        /\ Finished(p) /\ IsPath(frame[p].ret)
        /\ frame[p].old # 0
        /\ frame[p].old # frame[p].got
        /\ fs[frame[p].ret].br[BranchOf(p)] = frame[p].got

\* C4: a non-zero exit of `checkout main`, followed by either outcome of
\* `checkout master`, never ends the call: the call goes on to the branch
\* listing, and when fetch and the final checkout succeed it returns the path
\* with pr-n checked out.
C4_DefaultBranchFallback ==
    \A p \in Procs :
        (Finished(p) /\ RanRc(p, "checkout main", "nonzero")) =>
            /\ LastRun(p) \notin {[cmd |-> "checkout main", rc |-> "nonzero"],
                                  [cmd |-> "checkout master", rc |-> "nonzero"]}
            /\ RanCmd(p, "checkout master")
            /\ (RanCmd(p, "branch") \/ LastRun(p) = [cmd |-> "checkout master", rc |-> "raise"])
            /\ RanRc(p, "checkout pr", "zero") =>
                  /\ IsPath(frame[p].ret)
                  /\ fs[frame[p].ret].head = BranchOf(p)

C4_Witness ==
    \E p \in Procs :
        /\ Finished(p) /\ IsPath(frame[p].ret)
        /\ RanRc(p, "checkout main", "nonzero")
        /\ RanRc(p, "checkout master", "zero")
        /\ ~frame[p].fault
        /\ ~HasBranch(fs[frame[p].ret], Main)
        /\ fs[frame[p].ret].head = BranchOf(p)

\* The frame is past the decision whether to clone.
PastClone(p) == frame[p].pc \notin {"idle", "getcwd", "exists", "clone", "raised"}

\* C5: git clone is run exactly when the target path did not exist when the
\* call started; a call for a repository whose tree an earlier call with
\* another PR number left runs no clone and works on that tree.
C5_CloneOnlyWhenAbsent ==
    \A p \in Procs :
        PastClone(p) =>
            /\ RanCmd(p, "clone") <=> ~frame[p].existed
            /\ (/\ IsPath(prev.ret)
                /\ prev.ret = RepoPath(Cwd, frame[p].repo)
                /\ prev.n # frame[p].n) => ~RanCmd(p, "clone")

C5_Witness ==
    \E p \in Procs :
        /\ Finished(p) /\ IsPath(frame[p].ret)
        /\ prev.ret = frame[p].ret
        /\ prev.n # frame[p].n
        /\ ~RanCmd(p, "clone")

\* C6: when clone, fetch or the final checkout exits non-zero, the returned
\* "Error: " string contains what that command wrote to its standard error.
C6_ErrorEmbedsStderr ==
    \A p \in Procs :
        (/\ Finished(p)
         /\ LastRun(p).rc = "nonzero"
         /\ LastRun(p).cmd \in {"clone", "fetch", "checkout pr"})
            => \E i \in 1..Len(frame[p].ret) : frame[p].ret[i] = StderrText(LastRun(p).cmd)

(***************************************************************************)
(* Properties of the worker.                                               *)
(***************************************************************************)
\* The mention carries both a repository and a PR number.
YieldsBoth(m) == m.repo # <<>> /\ m.pr # 0
Active == { p \in Procs : frame[p].pc # "idle" }
\* A result for mention i went to its sender on its thread.
Answered(i) ==
    \E k \in 1..Len(outbox) :
        /\ outbox[k].re = i
        /\ outbox[k].thread = inbox[i].thread
        /\ outbox[k].to = inbox[i].sender
        /\ (IsPath(outbox[k].text) \/ IsErrorString(outbox[k].text))

\* C7: the loop never ends by itself: a round that raised has its error logged,
\* a round that completed or raised is followed by the sleep and the sleep by
\* the next kickoff, and under fair scheduling another round does start.
C7_LoopNeverEnds ==
    /\ [](wpc # "exited")
    /\ [][/\ (wpc = "except" /\ wpc' # wpc) => (wpc' = "sleep" /\ logged')
          /\ (wpc = "completed" /\ wpc' # wpc) => wpc' = "sleep"
          /\ (wpc = "sleep" /\ wpc' # wpc) => wpc' = "kickoff"]_vars
    /\ (wpc \in {"except", "completed"}) ~> (wpc = "wait")

C7_Witness == wpc = "wait" /\ logged = FALSE /\ taken > 0 /\ cur = 0 /\ called # {} /\ outbox = <<>>

\* C8: every well-formed instruction the worker received is eventually
\* answered: a message with the path or an "Error: " string goes to its sender
\* on its thread.
C8_ResponseLiveness ==
    \A i \in 1..MaxMentions :
        (taken >= i /\ YieldsBoth(inbox[i])) ~> Answered(i)

\* C9: at most one invocation of the tool is in progress at any time, and one
\* is in progress only while the worker waits for its tool call: not while it
\* waits for a mention, sends, sleeps or starts a round.
C9_SerializedInvocation ==
    /\ Cardinality(Active) <= 1
    /\ Active # {} => wpc = "in_tool"

C9_Witness ==
    \E p \in Procs : frame[p].pc = "fetch" /\ Cardinality(called) = 2 /\ Len(outbox) = 1

\* C10: a mention that does not yield both a repo and a PR number causes no
\* invocation of the tool and no message, and the worker passes from parsing
\* it to the pause before the next wait.
C10_MalformedDropped ==
    /\ \A i \in called : YieldsBoth(inbox[i])
    /\ \A k \in 1..Len(outbox) : YieldsBoth(inbox[outbox[k].re])
    /\ (cur # 0 /\ ~YieldsBoth(inbox[cur])) => wpc \in {"parse", "pause"}

C10_Witness ==
    /\ wpc = "pause"
    /\ cur # 0
    /\ ~YieldsBoth(inbox[cur])
    /\ cur \notin called
    /\ \A k \in 1..Len(outbox) : outbox[k].re # cur

(***************************************************************************)
(* Further properties of checkout_github_pr.                               *)
(***************************************************************************)
NonZero(cmd) == [cmd |-> cmd, rc |-> "nonzero"]

\* C11: git branch -D pr-n is run if and only if a local branch named exactly
\* pr-n exists; another branch whose name contains pr-n (pr-12 for n = 1)
\* does not trigger the delete.
C11_DeleteIffExactBranch ==
    \A p \in Procs :
        RanRc(p, "branch", "zero") =>
            ((frame[p].pc = "delete" \/ RanCmd(p, "branch -D")) <=> frame[p].old # 0)

\* C12: a non-zero exit of clone, branch listing, branch -D, fetch or the
\* final checkout makes the call return an "Error: " string, and a non-zero
\* exit of checkout main or checkout master never does.
C12_OnlyResolutionTolerated ==
    \A p \in Procs :
        Finished(p) =>
            /\ (\E i \in 1..Len(frame[p].run) :
                    /\ frame[p].run[i].rc = "nonzero"
                    /\ frame[p].run[i].cmd \notin {"checkout main", "checkout master"})
                => IsErrorString(frame[p].ret)
            /\ LastRun(p) \notin {NonZero("checkout main"), NonZero("checkout master")}

\* The place of a git command in the order of lines 50-79.
CmdRank(cmd) ==
    CASE cmd = "clone" -> 1
      [] cmd = "checkout main" -> 2
      [] cmd = "checkout master" -> 3
      [] cmd = "branch" -> 4
      [] cmd = "branch -D" -> 5
      [] cmd = "fetch" -> 6
      [] cmd = "checkout pr" -> 7

FatalCmds == {"clone", "fetch", "checkout pr"}

C14_RetryTolerance ==
    \A p \in Procs :
        (/\ Finished(p)
         /\ prev.repo = frame[p].repo
         /\ prev.n = frame[p].n
         /\ IsErrorString(prev.ret)
         /\ ~frame[p].fault
         /\ cwdOk
         /\ frame[p].stamp = Len(parent)
         /\ remote[frame[p].repo].pr[frame[p].n] # 0)
            => /\ IsPath(frame[p].ret)
               /\ fs[frame[p].ret].head = BranchOf(p)

\* C15: a working tree never holds more than one local branch named
\* pr-<number>.
C15_OnePrBranch ==
    \A path \in Paths :
        Cardinality({ b \in DOMAIN fs[path].br : b \in PrBranches }) <= 1

\* What the invocation (f, n) does to tree t0 when it runs alone and the
\* environment makes no command fail: the trees after lines 53, 66, 74, 77.
AloneCloned(t0, f) == IF t0 = NoDir THEN Cloned(f) ELSE t0
AloneResolved(t0, f) ==
    LET t == AloneCloned(t0, f) IN
    IF CheckoutOk(t, Main) THEN CheckedOut(t, Main)
    ELSE IF CheckoutOk(t, Master) THEN CheckedOut(t, Master)
    ELSE t
AlonePruned(t0, f, n) ==
    LET t == AloneResolved(t0, f) IN
    IF Contains(BranchListing(t), PrBranch(n)) THEN Deleted(t, PrBranch(n)) ELSE t
AloneFetched(t0, f, n) == Fetched(AlonePruned(t0, f, n), n, PrBranch(n))

\* Every git command of the invocation succeeds when it runs alone from t0.
AloneOk(t0, f, n) ==
    /\ t0 = NoDir => CloneOk(f)
    /\ Contains(BranchListing(AloneResolved(t0, f)), PrBranch(n))
          => DeleteOk(AloneResolved(t0, f), PrBranch(n))
    /\ FetchOk(AlonePruned(t0, f, n), n, PrBranch(n))
    /\ CheckoutOk(AloneFetched(t0, f, n), PrBranch(n))

\* The two bad outcomes: an "Error: " string although no command was made to
\* fail and all would succeed alone; the path although the tree is not on pr-n.
BadError(p) ==
    /\ Finished(p)
    /\ IsErrorString(frame[p].ret)
    /\ ~frame[p].fault
    /\ AloneOk(frame[p].tree0, frame[p].repo, frame[p].n)
BadPath(p) ==
    /\ Finished(p)
    /\ IsPath(frame[p].ret)
    /\ fs[frame[p].ret].head # BranchOf(p)

\* C16: an invocation that returns an "Error: " string although every one of
\* its git commands would succeed when run alone, or returns the path while
\* the working tree is not on its pr-n branch, ran interleaved with another
\* invocation for the same repository (no serial order reaches either
\* outcome), and an interleaving reaches such an outcome.
C16_RaceOnlyWhenInterleaved ==
    \A p \in Procs : (BadError(p) \/ BadPath(p)) => frame[p].overlap

\* Two interleaved invocations for the same pull request: one has returned the
\* path, the other an "Error: " string from a fetch into the branch the first
\* had checked out, although alone it would have succeeded.
C16_Witness ==
    \E p, q \in Procs :
        /\ p # q
        /\ frame[p].repo = frame[q].repo
        /\ BadError(p)
        /\ LastRun(p) = NonZero("fetch")
        /\ Finished(q)
        /\ IsPath(frame[q].ret)

\* C17: when the previous invocation, for owner1/x, returned the path of the
\* tree it cloned, an invocation for another owner's repository of the same
\* name runs no clone, works on that tree, whose origin is owner1/x, fetches
\* pull/n/head of owner1/x and not of its own repository, and on success
\* returns the same path.
C17_OwnerCollision ==
    \A p \in Procs :
        (/\ frame[p].pc \notin {"idle", "getcwd"}
         /\ frame[p].repo # prev.repo
         /\ IsPath(prev.ret)
         /\ fs[prev.ret] # NoDir
         /\ fs[prev.ret].origin = prev.repo)
            => /\ ~RanCmd(p, "clone")
               /\ PathOf(p) = prev.ret
               /\ Tree(p).origin = prev.repo
               /\ frame[p].got # 0 =>
                     /\ frame[p].got = remote[prev.repo].pr[frame[p].n]
                     /\ frame[p].got # remote[frame[p].repo].pr[frame[p].n]
               /\ RanRc(p, "fetch", "nonzero") /\ ~frame[p].fault =>
                     remote[prev.repo].pr[frame[p].n] = 0
               /\ (Finished(p) /\ IsPath(frame[p].ret)) => frame[p].ret = prev.ret

\* After a/x was cloned and checked out, a call for b/x has returned the same
\* path with pr-1 at the head commit of a/x's pull request.
C17_Witness ==
    \E p \in Procs :
        /\ Finished(p)
        /\ frame[p].repo = OwnerB
        /\ prev.repo = OwnerA
        /\ IsPath(prev.ret)
        /\ frame[p].ret = prev.ret
        /\ fs[frame[p].ret].origin = OwnerA
        /\ fs[frame[p].ret].br[BranchOf(p)] = remote[OwnerA].pr[frame[p].n]
        /\ remote[OwnerB].pr[frame[p].n] # remote[OwnerA].pr[frame[p].n]

\* C18: git branch -D pr-n is never about to run while pr-n is the branch
\* checked out, in a call none of whose commands failed for outside reasons.
C18_DeleteNeverOnCurrent ==
    \A p \in Procs :
        (frame[p].pc = "delete" /\ ~frame[p].fault /\ TreeOk(p))
            => Tree(p).head # BranchOf(p)

====
